---- MODULE Spec2Model ----
(***************************************************************************)
(* A model of tj/go-elastic: the HTTP client (elastic.go), the index/alias *)
(* catalog of package aliases, and the bulk batch writer of package batch. *)
(*                                                                         *)
(* Strings the code inspects character by character (index names and time  *)
(* layouts) are sequences of one-character strings.  A time.Time is a      *)
(* record [day, sec]: days since 0000-01-01 (proleptic Gregorian) and      *)
(* seconds into that day, in UTC.                                          *)
(***************************************************************************)
EXTENDS Integers, Sequences, FiniteSets, TLC

\* ------------------------------------------------------------------ bounds
\* n, the retention in days, ranges over 0..MaxDays.
MaxDays == 8
\* Catalogs other than the test fixture hold at most MaxCatalog indexes.
MaxCatalog == 2
\* RemoveOlderThan is explored while it yields at most MaxActions actions
\* (every iteration order of the map is a separate outcome).
MaxActions == 3

\* The most records a Batch holds.
MaxDocs == 5

\* The size at which a Batch with a threshold flushes by itself.
AutoFlushAt == 2

\* The largest retention, in days, the client's retirement calls are given.
MaxRetention == 2

\* ------------------------------------------------------------- characters
DigitChars == <<"0", "1", "2", "3", "4", "5", "6", "7", "8", "9">>

Digits == {DigitChars[i] : i \in 1..10}

\* time.isDigit(s, i), with i counted from 1.
IsDigit(s, i) == i <= Len(s) /\ s[i] \in Digits

DigitVal(c) == (CHOOSE i \in 1..10 : DigitChars[i] = c) - 1

Drop(s, k) == SubSeq(s, k + 1, Len(s))

Take(s, k) == SubSeq(s, 1, k)

\* F applied to the value of x: a local variable of the code, assigned once
\* and then read.
Apply(x, F(_)) == CHOOSE r \in {F(v) : v \in {x}} : TRUE

\* ------------------------------------------------------------- time.Parse
\* time.leadingInt followed by atoi's "rem != ''" test: all of s is digits.
RECURSIVE DigitsValue(_)
DigitsValue(s) ==
    IF s = <<>> THEN 0
    ELSE DigitsValue(Take(s, Len(s) - 1)) * 10 + DigitVal(s[Len(s)])

AllDigits(s) == \A i \in 1..Len(s) : s[i] \in Digits

\* time.atoi: an optional sign, then digits only.
Atoi(s) ==
    LET signed == s # <<>> /\ s[1] \in {"-", "+"}
        body == IF signed THEN Drop(s, 1) ELSE s
    IN  IF ~AllDigits(body) THEN [ok |-> FALSE, n |-> 0]
        ELSE [ok |-> TRUE,
              n  |-> IF signed /\ s[1] = "-" THEN 0 - DigitsValue(body)
                     ELSE DigitsValue(body)]

\* time.getnum: one or two digits, exactly two when fixed.
GetNum(s, fixed) ==
    IF ~IsDigit(s, 1) THEN [ok |-> FALSE, n |-> 0, rest |-> s]
    ELSE IF ~IsDigit(s, 2)
         THEN IF fixed THEN [ok |-> FALSE, n |-> 0, rest |-> s]
              ELSE [ok |-> TRUE, n |-> DigitVal(s[1]), rest |-> Drop(s, 1)]
         ELSE [ok |-> TRUE, n |-> DigitVal(s[1]) * 10 + DigitVal(s[2]),
               rest |-> Drop(s, 2)]

\* The layout element that starts at position i of the layout, for the
\* numeric elements of time.nextStdChunk ("none" when position i is literal
\* text).  Layouts of the model use no month or weekday names, no PM mark,
\* no zone, no "_2" and no fractional seconds.
StdAt(layout, i) ==
    LET c  == layout[i]
        nx == IF i + 1 <= Len(layout) THEN layout[i + 1] ELSE ""
    IN  CASE c = "0" /\ nx = "1" -> [std |-> "stdZeroMonth", width |-> 2]
          [] c = "0" /\ nx = "2" -> [std |-> "stdZeroDay", width |-> 2]
          [] c = "0" /\ nx = "3" -> [std |-> "stdZeroHour12", width |-> 2]
          [] c = "0" /\ nx = "4" -> [std |-> "stdZeroMinute", width |-> 2]
          [] c = "0" /\ nx = "5" -> [std |-> "stdZeroSecond", width |-> 2]
          [] c = "0" /\ nx = "6" -> [std |-> "stdYear", width |-> 2]
          [] c = "1" /\ nx = "5" -> [std |-> "stdHour", width |-> 2]
          [] c = "1" /\ nx # "5" -> [std |-> "stdNumMonth", width |-> 1]
          [] c = "2" /\ i + 3 <= Len(layout)
                     /\ SubSeq(layout, i, i + 3) = <<"2", "0", "0", "6">>
                                 -> [std |-> "stdLongYear", width |-> 4]
          [] c = "2" /\ ~(i + 3 <= Len(layout)
                          /\ SubSeq(layout, i, i + 3) = <<"2", "0", "0", "6">>)
                                 -> [std |-> "stdDay", width |-> 1]
          [] c = "3" -> [std |-> "stdHour12", width |-> 1]
          [] c = "4" -> [std |-> "stdMinute", width |-> 1]
          [] c = "5" -> [std |-> "stdSecond", width |-> 1]
          [] OTHER -> [std |-> "none", width |-> 0]

\* time.nextStdChunk: the literal prefix, the first layout element, the rest.
NextStdChunk(layout) ==
    LET hits == {i \in 1..Len(layout) : StdAt(layout, i).std # "none"}
    IN  IF hits = {} THEN [prefix |-> layout, std |-> "none", suffix |-> <<>>]
        ELSE LET i == CHOOSE j \in hits : \A k \in hits : j <= k
             IN  [prefix |-> Take(layout, i - 1),
                  std    |-> StdAt(layout, i).std,
                  suffix |-> Drop(layout, i - 1 + StdAt(layout, i).width)]

\* time.skip for a prefix without spaces: the value must start with it.
HasPrefix(value, prefix) ==
    Len(prefix) <= Len(value) /\ Take(value, Len(prefix)) = prefix

IsLeap(year) == year % 4 = 0 /\ (year % 100 # 0 \/ year % 400 = 0)

\* time.daysIn.
DaysIn(month, year) ==
    CASE month = 2 -> IF IsLeap(year) THEN 29 ELSE 28
      [] month \in {4, 6, 9, 11} -> 30
      [] OTHER -> 31

\* Days from 0000-01-01 to the first day of `year` (year >= 0).
DaysBeforeYear(year) ==
    365 * year + ((year + 3) \div 4) - ((year + 99) \div 100)
               + ((year + 399) \div 400)

\* time.daysBefore[month-1], plus the leap day from March on.
RECURSIVE DaysBeforeMonth(_, _)
DaysBeforeMonth(month, year) ==
    IF month <= 1 THEN 0
    ELSE DaysBeforeMonth(month - 1, year) + DaysIn(month - 1, year)

\* time.Date in UTC: the day count is linear in `day`, which may lie outside
\* the month (AddDate relies on this normalisation).
Date(year, month, day, hour, min, sec) ==
    LET secs == hour * 3600 + min * 60 + sec
        days == DaysBeforeYear(year) + DaysBeforeMonth(month, year) + day - 1
    IN  [day |-> days + (secs \div 86400), sec |-> secs % 86400]

\* One layout element read from the value, as the switch of time.Parse does:
\* the fields with the element stored, the rest of the value, and whether the
\* element was read without a syntax or range error.
ParseElement(std, value, f) ==
    CASE std = "stdYear" ->
           IF Len(value) < 2 THEN [ok |-> FALSE, f |-> f, rest |-> value]
           ELSE LET a == Atoi(Take(value, 2))
                IN  [ok |-> a.ok,
                     f  |-> [f EXCEPT !.year = IF a.n >= 69 THEN a.n + 1900
                                                ELSE a.n + 2000],
                     rest |-> Drop(value, 2)]
      [] std = "stdLongYear" ->
           IF Len(value) < 4 \/ ~IsDigit(value, 1)
           THEN [ok |-> FALSE, f |-> f, rest |-> value]
           ELSE LET a == Atoi(Take(value, 4))
                IN  [ok |-> a.ok, f |-> [f EXCEPT !.year = a.n],
                     rest |-> Drop(value, 4)]
      [] std \in {"stdNumMonth", "stdZeroMonth"} ->
           LET g == GetNum(value, std = "stdZeroMonth")
           IN  [ok |-> g.ok /\ ~(g.n <= 0 \/ 12 < g.n),
                f |-> [f EXCEPT !.month = g.n], rest |-> g.rest]
      [] std \in {"stdDay", "stdZeroDay"} ->
           LET g == GetNum(value, std = "stdZeroDay")
           IN  [ok |-> g.ok, f |-> [f EXCEPT !.day = g.n], rest |-> g.rest]
      [] std = "stdHour" ->
           LET g == GetNum(value, FALSE)
           IN  [ok |-> g.ok /\ ~(g.n < 0 \/ 24 <= g.n),
                f |-> [f EXCEPT !.hour = g.n], rest |-> g.rest]
      [] std \in {"stdHour12", "stdZeroHour12"} ->
           LET g == GetNum(value, std = "stdZeroHour12")
           IN  [ok |-> g.ok /\ ~(g.n < 0 \/ 12 < g.n),
                f |-> [f EXCEPT !.hour = g.n], rest |-> g.rest]
      [] std \in {"stdMinute", "stdZeroMinute"} ->
           LET g == GetNum(value, std = "stdZeroMinute")
           IN  [ok |-> g.ok /\ ~(g.n < 0 \/ 60 <= g.n),
                f |-> [f EXCEPT !.min = g.n], rest |-> g.rest]
      [] std \in {"stdSecond", "stdZeroSecond"} ->
           LET g == GetNum(value, std = "stdZeroSecond")
           IN  [ok |-> g.ok /\ ~(g.n < 0 \/ 60 <= g.n),
                f |-> [f EXCEPT !.sec = g.n], rest |-> g.rest]

\* The loop of time.Parse over the layout's elements: the literal prefix is
\* skipped, the element read, and the loop goes on with the rest of both.
RECURSIVE ParseLoop(_, _, _)
ParseChunk(chunk, v, f) ==
    IF chunk.std = "none" THEN [ok |-> v = <<>>, f |-> f]
    ELSE LET Go(e) == IF ~e.ok THEN [ok |-> FALSE, f |-> f]
                      ELSE ParseLoop(chunk.suffix, e.rest, e.f)
         IN  Apply(ParseElement(chunk.std, v, f), Go)

ParseLoop(layout, value, f) ==
    LET Go(chunk) ==
            IF ~HasPrefix(value, chunk.prefix) THEN [ok |-> FALSE, f |-> f]
            ELSE ParseChunk(chunk, Drop(value, Len(chunk.prefix)), f)
    IN  Apply(NextStdChunk(layout), Go)

ZeroTime == [day |-> 0, sec |-> 0]

\* time.Parse(layout, value): the fields default to January 1 of year 0,
\* 00:00:00; the day of the month is validated once all elements are read.
Parse(layout, value) ==
    LET Go(r) ==
            IF ~r.ok THEN [ok |-> FALSE, t |-> ZeroTime]
            ELSE IF r.f.day < 1 \/ r.f.day > DaysIn(r.f.month, r.f.year)
                 THEN [ok |-> FALSE, t |-> ZeroTime]
                 ELSE [ok |-> TRUE,
                       t  |-> Date(r.f.year, r.f.month, r.f.day,
                                   r.f.hour, r.f.min, r.f.sec)]
    IN  Apply(ParseLoop(layout, value,
                  [year |-> 0, month |-> 1, day |-> 1,
                   hour |-> 0, min |-> 0, sec |-> 0]), Go)

\* Time.Before.
Before(t, u) == t.day < u.day \/ (t.day = u.day /\ t.sec < u.sec)

\* The year a day count falls in.
YearOf(days) ==
    CHOOSE y \in (days \div 366)..(days \div 365) :
        DaysBeforeYear(y) <= days /\ days < DaysBeforeYear(y + 1)

\* The month of `year` its day number `yday` (from 0) falls in.
MonthOf(year, yday) ==
    CHOOSE m \in 1..12 :
        /\ DaysBeforeMonth(m, year) <= yday
        /\ yday < DaysBeforeMonth(m, year) + DaysIn(m, year)

\* Time.Date(): the civil date of a time (of year 0 or later).
CivilOf(t) ==
    LET InYear(y) ==
            LET InMonth(m) ==
                    [year |-> y, month |-> m,
                     day |-> t.day - DaysBeforeYear(y)
                                   - DaysBeforeMonth(m, y) + 1]
            IN  Apply(MonthOf(y, t.day - DaysBeforeYear(y)), InMonth)
    IN  Apply(YearOf(t.day), InYear)

\* Time.AddDate(0, 0, days): the civil date with the day moved, the clock kept.
AddDate(t, days) ==
    LET Go(c) == Date(c.year, c.month, c.day + days, 0, 0, t.sec)
    IN  Apply(CivilOf(t), Go)

\* ------------------------------------------------- index names and layouts
TwoDigits(n) == <<DigitChars[(n \div 10) + 1], DigitChars[(n % 10) + 1]>>

\* The name "<prefix>-yy-mm-dd" of a daily index.
Daily(prefix, yy, mm, dd) ==
    prefix \o <<"-">> \o TwoDigits(yy) \o <<"-">> \o TwoDigits(mm)
           \o <<"-">> \o TwoDigits(dd)

Checks == <<"c", "h", "e", "c", "k", "s">>

Logs == <<"l", "o", "g", "s">>

Series == <<"s", "e", "r", "i", "e", "s">>

Kibana == <<".", "k", "i", "b", "a", "n", "a", "-", "4">>

\* "checks-16-02-30": the layout's shape, but no day of the calendar.
NoSuchDay == Daily(Checks, 16, 2, 30)

\* "checks-16-04-1": a one-digit day where the layout wants two.
ShortDay == Checks \o <<"-", "1", "6", "-", "0", "4", "-", "1">>

LayoutChecks == Checks \o <<"-", "0", "6", "-", "0", "1", "-", "0", "2">>

LayoutLogs == Logs \o <<"-", "0", "6", "-", "0", "1", "-", "0", "2">>

LayoutSeries == Series \o <<"-", "0", "6", "-", "0", "1", "-", "0", "2">>

LayoutSomething == <<"s", "o", "m", "e", "t", "h", "i", "n", "g">>

\* ".kibana-4" used as a layout: its final "4" is the minute element.
LayoutKibana == Kibana

Layouts ==
    {LayoutChecks, LayoutLogs, LayoutSeries, LayoutSomething, LayoutKibana}

DateLayouts == {LayoutChecks, LayoutLogs, LayoutSeries}

ChecksNames == {Daily(Checks, 16, 4, d) : d \in 1..9}

LogsNames == {Daily(Logs, 16, 4, d) : d \in 1..2}

SeriesNames == {Daily(Series, 16, 1, d) : d \in 20..23}

\* The index names of the test listing `aliases`.
FixtureNames == {Kibana} \cup LogsNames \cup ChecksNames

\* The names the generated catalogs are drawn from.
SmallNames ==
    {Kibana, NoSuchDay, ShortDay, Daily(Logs, 16, 4, 1),
     Daily(Checks, 16, 4, 1), Daily(Checks, 16, 4, 2), Daily(Checks, 16, 4, 8)}

IndexNames == FixtureNames \cup SeriesNames \cup SmallNames

\* The aliases an index of the listings carries: "checks" on the checks
\* indexes, "logs" on the logs indexes, none on the others.
AliasesOf(name) ==
    IF HasPrefix(name, Checks) THEN {"checks"}
    ELSE IF HasPrefix(name, Logs) THEN {"logs"}
    ELSE {}

\* The Indexes value with the given names (type Indexes map[string]Index).
IndexesOf(names) == [k \in names |-> [Aliases |-> AliasesOf(k)]]

\* The service's indexes of the given names, as GET /_aliases lists them.
ListingOf(names) == [k \in names |-> [aliases |-> AliasesOf(k)]]

Fixture == IndexesOf(FixtureNames)

SeriesFixture == IndexesOf(SeriesNames)

Catalogs ==
    {Fixture, SeriesFixture}
        \cup {IndexesOf(s) : s \in {x \in SUBSET SmallNames :
                                       Cardinality(x) <= MaxCatalog}}

\* The reference times: 2016-04-09 at 01:00, 00:01 and 00:00, and
\* 2016-01-23 at 00:01.
Nows ==
    {Date(2016, 4, 9, 1, 0, 0), Date(2016, 4, 9, 0, 1, 0),
     Date(2016, 4, 9, 0, 0, 0), Date(2016, 1, 23, 0, 1, 0)}

AliasNames == {"checks", "last_week"}

\* ---------------------------------------------------------- package aliases
\* The orders in which a range over a map of these keys may visit them.
IterOrders(keys) ==
    {s \in [1..Cardinality(keys) -> keys] :
        \A a, b \in 1..Cardinality(keys) : a # b => s[a] # s[b]}

\* Indexes.Names: the keys, in any of the orders the range may visit them.
Names(i) == IterOrders(DOMAIN i)

\* Matching without the skip of names that fail to parse.
MatchingAll(i, layout) ==
    LET Keep(keep) == [k \in keep |-> i[k]]
    IN  Apply({k \in DOMAIN i : TRUE}, Keep)

\* Indexes.Matching.
Matching(i, layout) ==
    LET Keep(keep) == [k \in keep |-> i[k]]
    IN  Apply({k \in DOMAIN i : Parse(layout, k).ok}, Keep)

\* MatchingOlderThan with the boundary included (t.After(old) tested in place
\* of !t.Before(old)).
MatchingOlderThanInclusive(i, layout, n, now) ==
    LET Older(old) ==
            LET IsOld(p) == p.ok /\ ~Before(old, p.t)
            IN  {k \in DOMAIN i : Apply(Parse(layout, k), IsOld)}
        Keep(keep) == [k \in keep |-> i[k]]
    IN  Apply(Apply(AddDate(now, 0 - n), Older), Keep)

\* MatchingOlderThan with the cut-off taken at midnight of now's day.
MatchingOlderThanMidnight(i, layout, n, now) ==
    LET Older(old) ==
            LET IsOld(p) == p.ok /\ Before(p.t, old)
            IN  {k \in DOMAIN i : Apply(Parse(layout, k), IsOld)}
        Keep(keep) == [k \in keep |-> i[k]]
    IN  Apply(Apply(AddDate([now EXCEPT !.sec = 0], 0 - n), Older), Keep)

\* Indexes.MatchingOlderThan.
MatchingOlderThan(i, layout, n, now) ==
    LET Older(old) ==
            LET IsOld(p) == p.ok /\ Before(p.t, old)
            IN  {k \in DOMAIN i : Apply(Parse(layout, k), IsOld)}
        Keep(keep) == [k \in keep |-> i[k]]
    IN  Apply(Apply(AddDate(now, 0 - n), Older), Keep)

\* The nil []byte.
Nil == [kind |-> "nil"]

\* json.Marshal of an Actions value: {"actions":[{"remove":{..}}, ..]}.
MarshalActions(actions) == [kind |-> "actions", actions |-> actions]

\* RemoveOlderThan without the test for an empty list of actions.
RemoveOlderThanNoNil(i, layout, alias, n, now) ==
    {MarshalActions([j \in 1..Len(order) |->
                        [remove |-> [index |-> order[j], alias |-> alias]]]) :
        order \in IterOrders(DOMAIN MatchingOlderThan(i, layout, n, now))}

\* Indexes.RemoveOlderThan: one result for each order in which the range may
\* visit the matches; nil when there is no match.
RemoveOlderThan(i, layout, alias, n, now) ==
    {LET actions == [j \in 1..Len(order) |->
                        [remove |-> [index |-> order[j], alias |-> alias]]]
     IN  IF Len(actions) = 0 THEN Nil ELSE MarshalActions(actions) :
        order \in IterOrders(DOMAIN MatchingOlderThan(i, layout, n, now))}

\* A call on a catalog: the receiver afterwards, the value returned, and
\* whether a returned catalog is a map of its own (make(Indexes)).
Called(i, out, fresh) == [i |-> i, out |-> out, fresh |-> fresh]

\* Names: the loop reads the receiver and appends to v.
NamesCall(i) == {Called(i, out, FALSE) : out \in Names(i)}

\* Matching deleting from the receiver the entries that fail to parse, and
\* returning the receiver.
MatchingCallInPlace(i, layout) ==
    LET Go(m) == Called(m, m, FALSE)
    IN  Apply(Matching(i, layout), Go)

\* Matching: the loop reads the receiver and writes to m, a new map.
MatchingCall(i, layout) ==
    LET Go(m) == Called(i, m, TRUE)
    IN  Apply(Matching(i, layout), Go)

\* MatchingOlderThan: the loop reads the receiver and writes to m, a new map.
MatchingOlderThanCall(i, layout, n, now) ==
    LET Go(m) == Called(i, m, TRUE)
    IN  Apply(MatchingOlderThan(i, layout, n, now), Go)

\* RemoveOlderThan: the loop reads the result of MatchingOlderThan.
RemoveOlderThanCall(i, layout, alias, n, now) ==
    {Called(i, out, FALSE) : out \in RemoveOlderThan(i, layout, alias, n, now)}

\* ------------------------------------------------------- the remote service
\* Request paths, as the strings the client formats.
PathBulk == <<"/", "_", "b", "u", "l", "k">>

PathAliases == <<"/", "_", "a", "l", "i", "a", "s", "e", "s">>

PathAll == <<"/", "_", "a", "l", "l">>

PathRefresh == <<"/", "_", "r", "e", "f", "r", "e", "s", "h">>

\* strings.Join(names, ",").
RECURSIVE Join(_)
Join(names) ==
    IF Len(names) = 0 THEN <<>>
    ELSE IF Len(names) = 1 THEN names[1]
    ELSE names[1] \o <<",">> \o Join(Tail(names))

\* The comma-separated targets of a path "/a,b,c", as the service reads them.
RECURSIVE Split(_)
Split(s) ==
    LET commas == {i \in 1..Len(s) : s[i] = ","}
    IN  IF commas = {} THEN {s}
        ELSE LET i == CHOOSE j \in commas : \A k \in commas : j <= k
             IN  {Take(s, i - 1)} \cup Split(Drop(s, i))

NoBody == [kind |-> "none"]

\* A bulk stream is a sequence of tokens: an action line, a document line, or
\* a line terminator.
MetaLine(index, type) == [t |-> "meta", index |-> index, type |-> type]

DocLine(doc) == [t |-> "doc", doc |-> doc]

Newline == [t |-> "nl"]

Stream(tokens) == [kind |-> "bulk", tokens |-> tokens]

\* The request body `seriesDocs` of the client tests.
SeriesDocs ==
    Stream(<<MetaLine(Daily(Series, 16, 1, 20), "series"), Newline,
             DocLine(1), Newline,
             MetaLine(Daily(Series, 16, 1, 21), "series"), Newline,
             DocLine(2), Newline,
             MetaLine(Daily(Series, 16, 1, 21), "series"), Newline,
             DocLine(3), Newline,
             MetaLine(Daily(Series, 16, 1, 22), "series"), Newline,
             DocLine(4), Newline,
             MetaLine(Daily(Series, 16, 1, 23), "series"), Newline,
             DocLine(5), Newline>>)

\* strings.NewReader("").
EmptyStream == Stream(<<>>)

\* The indexes a bulk stream writes to.
StreamIndexes(body) ==
    {body.tokens[j].index :
        j \in {x \in 1..Len(body.tokens) : body.tokens[x].t = "meta"}}

\* What the network and the service do with one request: the connection
\* fails ("down"), the response body cannot be read ("cut"), or a response
\* arrives with a status and a body that is JSON ("json") or not.
Choices ==
    {[net |-> "down", status |-> 0, body |-> "none"],
     [net |-> "cut", status |-> 200, body |-> "none"],
     [net |-> "cut", status |-> 500, body |-> "none"],
     [net |-> "ok", status |-> 200, body |-> "json"],
     [net |-> "ok", status |-> 200, body |-> "garbage"],
     [net |-> "ok", status |-> 299, body |-> "json"],
     [net |-> "ok", status |-> 300, body |-> "json"],
     [net |-> "ok", status |-> 500, body |-> "json"]}

\* The status the service answers with: an empty bulk body is a 400 whatever
\* the service would have said otherwise (TestClient_Bulk_error).
StatusOf(call, ch) ==
    IF call.method = "POST" /\ call.path = PathBulk /\ call.body.kind = "bulk"
       /\ call.body.tokens = <<>> /\ ch.status < 300
    THEN 400
    ELSE ch.status

\* The service's indexes after it has carried out a request.
Applied(srv, call) ==
    CASE call.method = "DELETE" /\ call.path = PathAll ->
           [k \in {} |-> [aliases |-> {}]]
      [] call.method = "DELETE" /\ call.path # PathAll ->
           [k \in DOMAIN srv \ Split(Drop(call.path, 1)) |-> srv[k]]
      [] call.method = "POST" /\ call.path = PathBulk
           /\ call.body.kind = "bulk" ->
           [k \in DOMAIN srv \cup StreamIndexes(call.body) |->
               IF k \in DOMAIN srv THEN srv[k] ELSE [aliases |-> {}]]
      [] call.method = "POST" /\ call.path = PathAliases
           /\ call.body.kind = "actions" ->
           [k \in DOMAIN srv |->
               [aliases |-> srv[k].aliases \
                   {call.body.actions[j].remove.alias :
                       j \in {x \in 1..Len(call.body.actions) :
                                 call.body.actions[x].remove.index = k}}]]
      [] OTHER -> srv

\* HTTPClient.Do and ioutil.ReadAll against the service: the response (or the
\* failure to get one) and the service's indexes afterwards.  A request is
\* carried out exactly when the service answers it with a status below 300.
Do(srv, call, ch) ==
    LET Go(status) ==
            [net    |-> ch.net,
             status |-> IF ch.net = "down" THEN 0 ELSE status,
             body   |-> IF ch.net # "ok" THEN NoBody
                        ELSE IF status >= 300 THEN [kind |-> "text"]
                        ELSE IF ch.body = "garbage" THEN [kind |-> "garbage"]
                        ELSE IF call.method = "GET" /\ call.path = PathAliases
                             THEN [kind |-> "listing", value |-> srv]
                             ELSE [kind |-> "object"],
             srv    |-> IF ch.net # "down" /\ status < 300
                        THEN Applied(srv, call) ELSE srv]
    IN  Apply(StatusOf(call, ch), Go)

\* ------------------------------------------------------------ elastic.Client
NoError == [kind |-> "nil", status |-> 0, body |-> NoBody]

Error(kind) == [kind |-> kind, status |-> 0, body |-> NoBody]

\* fmt.Errorf("%s: %s", res.Status, b).
StatusError(status, body) == [kind |-> "status", status |-> status, body |-> body]

\* New(url): no credentials; the URL may be one http.NewRequest rejects.
New(url) == [URL |-> url, authCredentials |-> "nil", awsCredentials |-> "nil"]

\* Client.SetAWSCredentials.
SetAWSCredentials(c, credentials) ==
    [c EXCEPT !.awsCredentials = credentials, !.authCredentials = "nil"]

\* Client.SetAuthCredentials.
SetAuthCredentials(c, credentials) ==
    [c EXCEPT !.authCredentials = credentials, !.awsCredentials = "nil"]

\* awsauth.Sign4: the signed request, or nil for credentials it cannot sign
\* with.
Sign4OK(credentials) == credentials # "unsignable"

\* json.Unmarshal(b, v): v is a *aliases.Indexes ("indexes"), a *BulkResponse
\* ("bulk") or any other non-nil destination ("any").  The key "aliases" of
\* the listing fills the field Aliases.
Unmarshal(body, v) ==
    CASE body.kind = "listing" /\ v = "indexes" ->
           [ok |-> TRUE,
            value |-> [k \in DOMAIN body.value |->
                          [Aliases |-> body.value[k].aliases]]]
      [] body.kind = "listing" /\ v # "indexes" ->
           [ok |-> TRUE, value |-> NoBody]
      [] body.kind = "object" -> [ok |-> v # "indexes", value |-> NoBody]
      [] OTHER -> [ok |-> FALSE, value |-> NoBody]

\* The result of a client call: the error returned, the HTTP calls issued
\* (each with the response it got), whether the response body was handed to
\* json.Unmarshal, the value decoded into v, the service's indexes afterwards.
Ret(err, calls, unmarshal, out, srv) ==
    [err |-> err, calls |-> calls, unmarshal |-> unmarshal, out |-> out,
     srv |-> srv]

\* The methods http.NewRequest accepts, among those the model draws.
ValidMethod(method) == method \in {"GET", "POST", "DELETE"}

\* The request as it goes out, with the Authorization the client adds.
Outgoing(c, method, path, body) ==
    [method |-> method, path |-> path, body |-> body,
     auth |-> IF c.authCredentials # "nil" THEN "basic"
              ELSE IF c.awsCredentials # "nil" THEN "sigv4"
              ELSE "none"]

\* An HTTP call in the record of calls: the request and the response it got.
Exchange(call, res) ==
    [method |-> call.method, path |-> call.path, body |-> call.body,
     auth |-> call.auth, net |-> res.net, status |-> res.status,
     reply |-> res.body.kind]

\* Client.Request with 300 taken for a success (res.StatusCode > 300).
RequestAbove300(c, method, path, body, v, srv, ch) ==
    IF c.URL = "bad" \/ ~ValidMethod(method)
    THEN Ret(Error("newrequest"), <<>>, FALSE, NoBody, srv)
    ELSE IF c.authCredentials = "nil" /\ c.awsCredentials # "nil"
            /\ ~Sign4OK(c.awsCredentials)
    THEN Ret(Error("signing"), <<>>, FALSE, NoBody, srv)
    ELSE LET Go(res) ==
                 LET sent == <<Exchange(Outgoing(c, method, path, body), res)>>
                 IN  IF res.net = "down"
                     THEN Ret(Error("transport"), sent, FALSE, NoBody, res.srv)
                     ELSE IF res.net = "cut"
                     THEN Ret(Error("read"), sent, FALSE, NoBody, res.srv)
                     ELSE IF res.status > 300
                     THEN Ret(StatusError(res.status, res.body), sent, FALSE,
                              NoBody, res.srv)
                     ELSE IF v # "nil"
                     THEN LET Decoded(d) ==
                                  Ret(IF d.ok THEN NoError ELSE Error("decode"),
                                      sent, TRUE, d.value, res.srv)
                          IN  Apply(Unmarshal(res.body, v), Decoded)
                     ELSE Ret(NoError, sent, FALSE, NoBody, res.srv)
         IN  Apply(Do(srv, Outgoing(c, method, path, body), ch), Go)

\* Client.Request with the call issued twice.
RequestTwice(c, method, path, body, v, srv, ch) ==
    IF c.URL = "bad" \/ ~ValidMethod(method)
    THEN Ret(Error("newrequest"), <<>>, FALSE, NoBody, srv)
    ELSE IF c.authCredentials = "nil" /\ c.awsCredentials # "nil"
            /\ ~Sign4OK(c.awsCredentials)
    THEN Ret(Error("signing"), <<>>, FALSE, NoBody, srv)
    ELSE LET Go(res) ==
                 LET sent == <<Exchange(Outgoing(c, method, path, body), res),
                              Exchange(Outgoing(c, method, path, body), res)>>
                 IN  IF res.net = "down"
                     THEN Ret(Error("transport"), sent, FALSE, NoBody, res.srv)
                     ELSE IF res.net = "cut"
                     THEN Ret(Error("read"), sent, FALSE, NoBody, res.srv)
                     ELSE IF res.status >= 300
                     THEN Ret(StatusError(res.status, res.body), sent,
                              FALSE, NoBody, res.srv)
                     ELSE IF v # "nil"
                     THEN LET Decoded(d) ==
                                  Ret(IF d.ok THEN NoError ELSE Error("decode"),
                                      sent, TRUE, d.value, res.srv)
                          IN  Apply(Unmarshal(res.body, v), Decoded)
                     ELSE Ret(NoError, sent, FALSE, NoBody, res.srv)
         IN  Apply(Do(srv, Outgoing(c, method, path, body), ch), Go)

\* Client.Request.  `ch` is what the network and the service do with the call.
Request(c, method, path, body, v, srv, ch) ==
    IF c.URL = "bad" \/ ~ValidMethod(method)
    THEN Ret(Error("newrequest"), <<>>, FALSE, NoBody, srv)
    ELSE IF c.authCredentials = "nil" /\ c.awsCredentials # "nil"
            /\ ~Sign4OK(c.awsCredentials)
    THEN Ret(Error("signing"), <<>>, FALSE, NoBody, srv)
    ELSE LET Go(res) ==
                 LET sent == <<Exchange(Outgoing(c, method, path, body), res)>>
                 IN  IF res.net = "down"
                     THEN Ret(Error("transport"), sent, FALSE, NoBody, res.srv)
                     ELSE IF res.net = "cut"
                     THEN Ret(Error("read"), sent, FALSE, NoBody, res.srv)
                     ELSE IF res.status >= 300
                     THEN Ret(StatusError(res.status, res.body), sent, FALSE,
                              NoBody, res.srv)
                     ELSE IF v # "nil"
                     THEN LET Decoded(d) ==
                                  Ret(IF d.ok THEN NoError ELSE Error("decode"),
                                      sent, TRUE, d.value, res.srv)
                          IN  Apply(Unmarshal(res.body, v), Decoded)
                     ELSE Ret(NoError, sent, FALSE, NoBody, res.srv)
         IN  Apply(Do(srv, Outgoing(c, method, path, body), ch), Go)

\* Client.Bulk.
Bulk(c, body, srv, ch) == Request(c, "POST", PathBulk, body, "nil", srv, ch)

\* Client.BulkResponse.
BulkResponse(c, body, srv, ch) ==
    Request(c, "POST", PathBulk, body, "bulk", srv, ch)

\* Client.DeleteIndex.
DeleteIndex(c, index, srv, ch) ==
    Request(c, "DELETE", <<"/">> \o index, NoBody, "nil", srv, ch)

\* Client.DeleteAll.
DeleteAll(c, srv, ch) == Request(c, "DELETE", PathAll, NoBody, "nil", srv, ch)

\* Client.RefreshAll.
RefreshAll(c, srv, ch) ==
    Request(c, "POST", PathRefresh, NoBody, "nil", srv, ch)

\* The zero value of aliases.Indexes, which v keeps when nothing is decoded.
NilIndexes == [k \in {} |-> [Aliases |-> {}]]

\* Client.Aliases.
Aliases(c, srv, ch) ==
    LET Go(r) == IF r.err = NoError THEN r ELSE [r EXCEPT !.out = NilIndexes]
    IN  Apply(Request(c, "GET", PathAliases, NoBody, "indexes", srv, ch), Go)

\* RemoveOldAliases without the test for a nil body.
RemoveOldAliasesAlwaysPosting(c, layout, alias, n, now, srv, ch1, ch2) ==
    LET Go(a) ==
            IF a.err # NoError
            THEN {Ret(a.err, a.calls, a.unmarshal, NoBody, a.srv)}
            ELSE {LET Posted(r) ==
                          Ret(r.err, a.calls \o r.calls, a.unmarshal, NoBody,
                              r.srv)
                  IN  Apply(Request(c, "POST", PathAliases, body, "nil",
                                    a.srv, ch2), Posted) :
                     body \in RemoveOlderThan(a.out, layout, alias, n, now)}
    IN  Apply(Aliases(c, srv, ch1), Go)

\* Client.RemoveOldAliases: one result for each order RemoveOlderThan may
\* list the actions in.  ch1 answers the GET, ch2 the POST.
RemoveOldAliases(c, layout, alias, n, now, srv, ch1, ch2) ==
    LET Go(a) ==
            IF a.err # NoError
            THEN {Ret(a.err, a.calls, a.unmarshal, NoBody, a.srv)}
            ELSE {IF body.kind = "nil"
                  THEN Ret(NoError, a.calls, a.unmarshal, NoBody, a.srv)
                  ELSE LET Posted(r) ==
                               Ret(r.err, a.calls \o r.calls, a.unmarshal,
                                   NoBody, r.srv)
                       IN  Apply(Request(c, "POST", PathAliases, body, "nil",
                                         a.srv, ch2), Posted) :
                     body \in RemoveOlderThan(a.out, layout, alias, n, now)}
    IN  Apply(Aliases(c, srv, ch1), Go)

\* RemoveOldIndexes deleting every index that matches the layout.
RemoveOldIndexesAllMatching(c, layout, n, now, srv, ch1, ch2) ==
    LET Go(a) ==
            IF a.err # NoError
            THEN {Ret(a.err, a.calls, a.unmarshal, NoBody, a.srv)}
            ELSE IF Cardinality(DOMAIN a.out) = 0
            THEN {Ret(NoError, a.calls, a.unmarshal, NoBody, a.srv)}
            ELSE {IF Len(names) = 0
                  THEN Ret(NoError, a.calls, a.unmarshal, NoBody, a.srv)
                  ELSE LET Deleted(r) ==
                               Ret(r.err, a.calls \o r.calls, a.unmarshal,
                                   NoBody, r.srv)
                       IN  Apply(DeleteIndex(c, Join(names), a.srv, ch2),
                                 Deleted) :
                     names \in Names(Matching(a.out, layout))}
    IN  Apply(Aliases(c, srv, ch1), Go)

\* Client.RemoveOldIndexes: one result for each order Names may list the
\* matches in.  ch1 answers the GET, ch2 the DELETE.
RemoveOldIndexes(c, layout, n, now, srv, ch1, ch2) ==
    LET Go(a) ==
            IF a.err # NoError
            THEN {Ret(a.err, a.calls, a.unmarshal, NoBody, a.srv)}
            ELSE IF Cardinality(DOMAIN a.out) = 0
            THEN {Ret(NoError, a.calls, a.unmarshal, NoBody, a.srv)}
            ELSE {IF Len(names) = 0
                  THEN Ret(NoError, a.calls, a.unmarshal, NoBody, a.srv)
                  ELSE LET Deleted(r) ==
                               Ret(r.err, a.calls \o r.calls, a.unmarshal,
                                   NoBody, r.srv)
                       IN  Apply(DeleteIndex(c, Join(names), a.srv, ch2),
                                 Deleted) :
                     names \in Names(MatchingOlderThan(a.out, layout, n, now))}
    IN  Apply(Aliases(c, srv, ch1), Go)

\* -------------------------------------------------------------- batch.Batch
Animals == <<"a", "n", "i", "m", "a", "l", "s">>

\* A record handed to Add: a pet, or a value json.Marshal has no
\* representation for.
Pet(name, species) == [name |-> name, species |-> species, marshals |-> TRUE]

Unmarshalable == [name |-> "", species |-> "", marshals |-> FALSE]

Pets == {Pet("Tobi", "ferret"), Pet("Manny", "cat"), Unmarshalable}

\* json.Marshal of a record.
Serialize(doc) ==
    [ok |-> doc.marshals,
     json |-> [name |-> doc.name, species |-> doc.species]]

\* The encoder with the lines joined by terminators, none after the last.
RECURSIVE EncodeDocsJoined(_, _, _)
EncodeDocsJoined(index, type, docs) ==
    IF Len(docs) = 0 THEN <<>>
    ELSE IF Len(docs) = 1
    THEN <<MetaLine(index, type), Newline, DocLine(Serialize(Head(docs)).json)>>
    ELSE <<MetaLine(index, type), Newline,
           DocLine(Serialize(Head(docs)).json), Newline>>
            \o EncodeDocsJoined(index, type, Tail(docs))

\* The bulk stream of the pending records: for each, in order, an action
\* line and the record's line, each ended by a line terminator.  Nothing is
\* produced when a record cannot be serialized.
RECURSIVE EncodeDocs(_, _, _)
EncodeDocs(index, type, docs) ==
    IF Len(docs) = 0 THEN <<>>
    ELSE <<MetaLine(index, type), Newline,
           DocLine(Serialize(Head(docs)).json), Newline>>
            \o EncodeDocs(index, type, Tail(docs))

Encode(b) ==
    IF \E j \in 1..Len(b.Docs) : ~Serialize(b.Docs[j]).ok
    THEN [ok |-> FALSE, body |-> NoBody]
    ELSE [ok |-> TRUE, body |-> Stream(EncodeDocs(b.Index, b.Type, b.Docs))]

\* Batch.Size.
Size(b) == Len(b.Docs)

\* The result of a Batch call: the batch afterwards, the error returned, the
\* HTTP calls issued, the service's indexes afterwards.
BatchRet(b, err, calls, srv) ==
    [batch |-> b, err |-> err, calls |-> calls, srv |-> srv]

\* Batch.Flush: nothing to do on an empty batch; otherwise the records are
\* encoded, written in one bulk call, and cleared when the call succeeds.
Flush(b, c, srv, ch) ==
    IF Size(b) = 0 THEN BatchRet(b, NoError, <<>>, srv)
    ELSE LET Go(enc) ==
                 IF ~enc.ok THEN BatchRet(b, Error("encoding"), <<>>, srv)
                 ELSE LET Written(r) ==
                              BatchRet(IF r.err = NoError
                                       THEN [b EXCEPT !.Docs = <<>>] ELSE b,
                                       r.err, r.calls, r.srv)
                      IN  Apply(BulkResponse(c, enc.body, srv, ch), Written)
         IN  Apply(Encode(b), Go)

\* Add flushing only once the size has passed the threshold.
AddFlushingLate(b, doc, c, srv, ch) ==
    LET Go(b1) ==
            IF b1.Threshold > 0 /\ Size(b1) > b1.Threshold
            THEN Flush(b1, c, srv, ch)
            ELSE BatchRet(b1, NoError, <<>>, srv)
    IN  Apply([b EXCEPT !.Docs = Append(@, doc)], Go)

\* Add replacing the last pending record once the batch holds one.
AddOverwriting(b, doc, c, srv, ch) ==
    LET Go(b1) ==
            IF b1.Threshold > 0 /\ Size(b1) >= b1.Threshold
            THEN Flush(b1, c, srv, ch)
            ELSE BatchRet(b1, NoError, <<>>, srv)
    IN  Apply([b EXCEPT !.Docs = IF Len(@) = 0 THEN <<doc>>
                                  ELSE [@ EXCEPT ![Len(@)] = doc]], Go)

\* Batch.Add: the record is appended; a batch with a threshold flushes once
\* its size reaches it, and Add returns what that Flush returns.
Add(b, doc, c, srv, ch) ==
    LET Go(b1) ==
            IF b1.Threshold > 0 /\ Size(b1) >= b1.Threshold
            THEN Flush(b1, c, srv, ch)
            ELSE BatchRet(b1, NoError, <<>>, srv)
    IN  Apply([b EXCEPT !.Docs = Append(@, doc)], Go)

\* ------------------------------------------------------------------- state
VARIABLES
    client,    \* the elastic.Client: URL, authCredentials, awsCredentials
    server,    \* the remote service's indexes, each with its aliases
    batch,     \* the batch.Batch: Index, Type, Docs, Threshold
    adds,      \* Add calls since the last Flush that returned no error
    catalog,   \* the aliases.Indexes value the catalog operations are called on
    last       \* the last operation: its arguments, its result, its HTTP calls

vars == <<client, server, batch, adds, catalog, last>>

\* -------------------------------------------- the catalog operations, called
\* as the tests of package aliases call them: genIndexes decodes a listing
\* into a catalog, and operations are called on it, the caller looking at
\* what one returned before it calls the next.
Loaded == last.op \in {"Load", "Return"}

\* genIndexes: the catalog is decoded from a listing.
Load(c) ==
    /\ catalog' = c
    /\ server' = [k \in DOMAIN c |-> [aliases |-> c[k].Aliases]]
    /\ last' = [op |-> "Load"]
    /\ UNCHANGED <<client, batch, adds>>

\* The caller is done with the result of the last call.
Return ==
    /\ last.op \notin {"init", "SetAWSCredentials", "SetAuthCredentials",
                       "Load", "Return"}
    /\ last' = [op |-> "Return"]
    /\ UNCHANGED <<client, server, batch, adds, catalog>>

CallNames ==
    /\ Loaded
    /\ Cardinality(DOMAIN catalog) <= MaxActions
    /\ \E r \in NamesCall(catalog) :
          /\ catalog' = r.i
          /\ last' = [op |-> "Names", out |-> r.out]
    /\ UNCHANGED <<client, server, batch, adds>>

CallMatching(layout) ==
    /\ Loaded
    /\ \E r \in {MatchingCall(catalog, layout)} :
          /\ catalog' = r.i
          /\ last' = [op |-> "Matching", layout |-> layout, out |-> r.out,
                      fresh |-> r.fresh]
    /\ UNCHANGED <<client, server, batch, adds>>

CallMatchingOlderThan(layout, n, now) ==
    /\ Loaded
    /\ \E r \in {MatchingOlderThanCall(catalog, layout, n, now)} :
          /\ catalog' = r.i
          /\ last' = [op |-> "MatchingOlderThan", layout |-> layout, n |-> n,
                      now |-> now, out |-> r.out, fresh |-> r.fresh]
    /\ UNCHANGED <<client, server, batch, adds>>

CallRemoveOlderThan(layout, alias, n, now) ==
    /\ Loaded
    /\ Cardinality(DOMAIN MatchingOlderThan(catalog, layout, n, now))
          <= MaxActions
    /\ \E r \in RemoveOlderThanCall(catalog, layout, alias, n, now) :
          /\ catalog' = r.i
          /\ last' = [op |-> "RemoveOlderThan", layout |-> layout,
                      alias |-> alias, n |-> n, now |-> now, out |-> r.out]
    /\ UNCHANGED <<client, server, batch, adds>>

IdleBatch == [Index |-> <<>>, Type |-> "", Docs |-> <<>>, Threshold |-> 0]

InitCatalog ==
    /\ catalog = NilIndexes
    /\ last = [op |-> "init"]
    /\ client = New("ok")
    /\ server = ListingOf({})
    /\ batch = IdleBatch
    /\ adds = 0

NextCatalog ==
    \/ \E c \in Catalogs : Load(c)
    \/ Return
    \/ CallNames
    \/ \E layout \in Layouts : CallMatching(layout)
    \/ \E layout \in Layouts, n \in 0..MaxDays, now \in Nows :
          CallMatchingOlderThan(layout, n, now)
    \/ \E layout \in Layouts, alias \in AliasNames, n \in 0..MaxDays,
          now \in Nows : CallRemoveOlderThan(layout, alias, n, now)

SpecCatalog == InitCatalog /\ [][NextCatalog]_vars

\* ------------------------------------------------- the batch, as its test
\* uses it: a Batch on a client, records added, the batch flushed.
BatchAdd(doc, ch) ==
    /\ Size(batch) < MaxDocs
    /\ \E r \in {Add(batch, doc, client, server, ch)} :
          /\ batch' = r.batch
          /\ server' = r.srv
          /\ adds' = IF Size(r.batch) = 0 THEN 0 ELSE adds + 1
          /\ last' = [op |-> "Add", doc |-> doc, before |-> batch.Docs,
                      err |-> r.err, calls |-> r.calls]
    /\ UNCHANGED <<client, catalog>>

BatchFlush(ch) ==
    /\ \E r \in {Flush(batch, client, server, ch)} :
          /\ batch' = r.batch
          /\ server' = r.srv
          /\ adds' = IF r.err = NoError THEN 0 ELSE adds
          /\ last' = [op |-> "Flush", doc |-> Unmarshalable,
                      before |-> batch.Docs, err |-> r.err, calls |-> r.calls]
    /\ UNCHANGED <<client, catalog>>

InitBatch ==
    /\ client \in {New("ok"), New("bad"), SetAuthCredentials(New("ok"), "user")}
    /\ server = ListingOf({})
    /\ batch \in {[Index |-> Animals, Type |-> "pet", Docs |-> <<>>,
                   Threshold |-> t] : t \in {0, AutoFlushAt}}
    /\ adds = 0
    /\ catalog = NilIndexes
    /\ last = [op |-> "init"]

NextBatch ==
    \/ \E doc \in Pets, ch \in Choices : BatchAdd(doc, ch)
    \/ \E ch \in Choices : BatchFlush(ch)

SpecBatch == InitBatch /\ [][NextBatch]_vars

\* ------------------------------------------------ the client, as its tests
\* use it: a client is made and given credentials, then called; the caller
\* looks at what a call returned before it makes the next.
Configuring == last.op \in {"init", "SetAWSCredentials", "SetAuthCredentials"}

Ready == Configuring \/ last.op = "Return"

CallSetAWSCredentials(credentials) ==
    /\ Configuring
    /\ client' = SetAWSCredentials(client, credentials)
    /\ last' = [op |-> "SetAWSCredentials"]
    /\ UNCHANGED <<server, batch, adds, catalog>>

CallSetAuthCredentials(credentials) ==
    /\ Configuring
    /\ client' = SetAuthCredentials(client, credentials)
    /\ last' = [op |-> "SetAuthCredentials"]
    /\ UNCHANGED <<server, batch, adds, catalog>>

\* The record of a call that is one Request.
Single(op, method, path, body, v, r) ==
    [op |-> op, method |-> method, path |-> path, body |-> body, v |-> v,
     before |-> server, err |-> r.err, calls |-> r.calls,
     unmarshal |-> r.unmarshal, out |-> r.out]

CallRequest(method, path, v, ch) ==
    /\ Ready
    /\ \E r \in {Request(client, method, path, NoBody, v, server, ch)} :
          /\ server' = r.srv
          /\ last' = Single("Request", method, path, NoBody, v, r)
    /\ UNCHANGED <<client, batch, adds, catalog>>

CallBulk(body, ch) ==
    /\ Ready
    /\ \E r \in {Bulk(client, body, server, ch)} :
          /\ server' = r.srv
          /\ last' = Single("Bulk", "POST", PathBulk, body, "nil", r)
    /\ UNCHANGED <<client, batch, adds, catalog>>

CallDeleteAll(ch) ==
    /\ Ready
    /\ \E r \in {DeleteAll(client, server, ch)} :
          /\ server' = r.srv
          /\ last' = Single("DeleteAll", "DELETE", PathAll, NoBody, "nil", r)
    /\ UNCHANGED <<client, batch, adds, catalog>>

CallRefreshAll(ch) ==
    /\ Ready
    /\ \E r \in {RefreshAll(client, server, ch)} :
          /\ server' = r.srv
          /\ last' = Single("RefreshAll", "POST", PathRefresh, NoBody, "nil", r)
    /\ UNCHANGED <<client, batch, adds, catalog>>

CallAliases(ch) ==
    /\ Ready
    /\ \E r \in {Aliases(client, server, ch)} :
          /\ server' = r.srv
          /\ last' = Single("Aliases", "GET", PathAliases, NoBody, "indexes", r)
    /\ UNCHANGED <<client, batch, adds, catalog>>

\* The catalog GET /_aliases decodes from the service's indexes.
Listed(srv) == [k \in DOMAIN srv |-> [Aliases |-> srv[k].aliases]]

CallRemoveOldAliases(layout, alias, n, now, ch1, ch2) ==
    /\ Ready
    /\ \E r \in RemoveOldAliases(client, layout, alias, n, now, server,
                                 ch1, ch2) :
          /\ server' = r.srv
          /\ last' = [op |-> "RemoveOldAliases", layout |-> layout,
                      alias |-> alias, n |-> n, now |-> now,
                      before |-> server, err |-> r.err, calls |-> r.calls]
    /\ UNCHANGED <<client, batch, adds, catalog>>

CallRemoveOldIndexes(layout, n, now, ch1, ch2) ==
    /\ Ready
    /\ \E r \in RemoveOldIndexes(client, layout, n, now, server, ch1, ch2) :
          /\ server' = r.srv
          /\ last' = [op |-> "RemoveOldIndexes", layout |-> layout,
                      alias |-> "", n |-> n, now |-> now,
                      before |-> server, err |-> r.err, calls |-> r.calls]
    /\ UNCHANGED <<client, batch, adds, catalog>>

\* The layouts, times and answers the client's calls are given.
ClientLayouts == {LayoutSeries, LayoutChecks}

ClientNows == {Date(2016, 1, 23, 0, 1, 0)}

\* The answers to a second request: it is made only after a first that was
\* answered below 300 with JSON.
Second(ch1) ==
    IF ch1.net = "ok" /\ ch1.status < 300 /\ ch1.body = "json"
    THEN Choices ELSE {ch1}

InitClient ==
    /\ client \in {New("ok"), New("bad")}
    /\ server \in {ListingOf({}), ListingOf(SeriesNames \cup {Kibana})}
    /\ batch = IdleBatch
    /\ adds = 0
    /\ catalog = NilIndexes
    /\ last = [op |-> "init"]

NextClient ==
    \/ \E credentials \in {"signable", "unsignable"} :
          CallSetAWSCredentials(credentials)
    \/ CallSetAuthCredentials("user")
    \/ Return
    \/ \E method \in {"GET", "POST", "BAD METHOD"},
          path \in {PathRefresh, PathAliases}, v \in {"nil", "any", "indexes"},
          ch \in Choices : CallRequest(method, path, v, ch)
    \/ \E body \in {EmptyStream, SeriesDocs}, ch \in Choices :
          CallBulk(body, ch)
    \/ \E ch \in Choices : CallDeleteAll(ch)
    \/ \E ch \in Choices : CallRefreshAll(ch)
    \/ \E ch \in Choices : CallAliases(ch)
    \/ \E layout \in ClientLayouts, n \in 0..MaxRetention, now \in ClientNows,
          ch1 \in Choices :
          \E ch2 \in Second(ch1) :
             CallRemoveOldAliases(layout, "last_week", n, now, ch1, ch2)
    \/ \E layout \in ClientLayouts, n \in 0..MaxRetention, now \in ClientNows,
          ch1 \in Choices :
          \E ch2 \in Second(ch1) :
             CallRemoveOldIndexes(layout, n, now, ch1, ch2)

SpecClient == InitClient /\ [][NextClient]_vars

\* ------------------------------------------------------------------ claims
\* A parsed time t lies strictly before `now` minus n days of 24 hours.
OlderThanDays(t, now, n) ==
    t.day < now.day - n \/ (t.day = now.day - n /\ t.sec < now.sec)

\* C4: MatchingOlderThan(layout, n, now) returns exactly the entries of the
\* receiver whose name parses under layout and whose parsed time is strictly
\* before now minus n days; an entry dated exactly now minus n days and an
\* entry whose name does not parse are not returned.
C4_StrictlyOlder ==
    last.op = "MatchingOlderThan" =>
        /\ DOMAIN last.out =
              {k \in DOMAIN catalog :
                  /\ Parse(last.layout, k).ok
                  /\ OlderThanDays(Parse(last.layout, k).t, last.now, last.n)}
        /\ \A k \in DOMAIN last.out : last.out[k] = catalog[k]

\* C4 witness: a call that returns an entry, leaves out the entry dated
\* exactly now minus n days, and leaves out a name that does not parse.
C4_Witness ==
    /\ last.op = "MatchingOlderThan"
    /\ DOMAIN last.out # {}
    /\ \E k \in DOMAIN catalog \ DOMAIN last.out :
          /\ Parse(last.layout, k).ok
          /\ Parse(last.layout, k).t =
                [day |-> last.now.day - last.n, sec |-> last.now.sec]
    /\ \E k \in DOMAIN catalog \ DOMAIN last.out : ~Parse(last.layout, k).ok

\* C5: for daily indexes (parsed as midnight of their day) and a reference
\* time strictly after midnight of day D, MatchingOlderThan with n >= 1
\* retires exactly the indexes dated D-n or earlier; for the test catalog
\* and 2016-04-09 01:00, n=7 retires 04-01 and 04-02, n=2 retires
\* 04-01..04-07 and n=1 retires 04-01..04-08.
C5_DailyRetention ==
    (last.op = "MatchingOlderThan" /\ last.n >= 1 /\ last.now.sec > 0) =>
        /\ \A k \in DOMAIN catalog :
              (Parse(last.layout, k).ok /\ Parse(last.layout, k).t.sec = 0)
                  => (k \in DOMAIN last.out
                        <=> Parse(last.layout, k).t.day
                               <= last.now.day - last.n)
        /\ (catalog = Fixture /\ last.layout = LayoutChecks
              /\ last.now = Date(2016, 4, 9, 1, 0, 0)) =>
              /\ last.n = 7 =>
                    DOMAIN last.out = {Daily(Checks, 16, 4, d) : d \in 1..2}
              /\ last.n = 2 =>
                    DOMAIN last.out = {Daily(Checks, 16, 4, d) : d \in 1..7}
              /\ last.n = 1 =>
                    DOMAIN last.out = {Daily(Checks, 16, 4, d) : d \in 1..8}

\* C5 witness: the test's call, n=7 at 2016-04-09 01:00 on the test catalog,
\* has retired two of the nine daily indexes.
C5_Witness ==
    /\ last.op = "MatchingOlderThan"
    /\ catalog = Fixture
    /\ last.layout = LayoutChecks
    /\ last.n = 7
    /\ last.now = Date(2016, 4, 9, 1, 0, 0)
    /\ Cardinality(DOMAIN last.out) = 2

\* C6 as stated: Matching returns exactly the entries whose name parses, and
\* .kibana-4 is in no result of Matching or MatchingOlderThan, whatever the
\* layout.
C6_AnyLayout ==
    /\ last.op = "Matching" =>
          DOMAIN last.out = {k \in DOMAIN catalog : Parse(last.layout, k).ok}
    /\ last.op \in {"Matching", "MatchingOlderThan"} =>
          Kibana \notin DOMAIN last.out

\* C6, amended: Matching returns exactly the entries whose name parses under
\* the layout (for the test catalog: 9 under checks-06-01-02, 2 under
\* logs-06-01-02, none under something), and .kibana-4 is in no result of
\* Matching or MatchingOlderThan under a date layout <prefix>-06-01-02 or
\* under the literal layout something.
C6_DateLayouts ==
    /\ last.op = "Matching" =>
          /\ DOMAIN last.out =
                {k \in DOMAIN catalog : Parse(last.layout, k).ok}
          /\ \A k \in DOMAIN last.out : last.out[k] = catalog[k]
          /\ catalog = Fixture =>
                /\ last.layout = LayoutChecks => DOMAIN last.out = ChecksNames
                /\ last.layout = LayoutLogs => DOMAIN last.out = LogsNames
                /\ last.layout = LayoutSomething => DOMAIN last.out = {}
    /\ (last.op \in {"Matching", "MatchingOlderThan"}
          /\ last.layout \in DateLayouts \cup {LayoutSomething}) =>
          Kibana \notin DOMAIN last.out

\* C6 witness: Matching under checks-06-01-02 on the test catalog, which
\* holds .kibana-4, has returned the nine checks indexes.
C6_Witness ==
    /\ last.op = "Matching"
    /\ Kibana \in DOMAIN catalog
    /\ last.layout = LayoutChecks
    /\ Cardinality(DOMAIN last.out) = 9

\* C7: RemoveOlderThan returns nil when MatchingOlderThan is empty, and
\* otherwise a list with exactly one remove action for each index of
\* MatchingOlderThan, each carrying the given alias.
C7_OneActionPerIndex ==
    last.op = "RemoveOlderThan" =>
        LET m == DOMAIN MatchingOlderThan(catalog, last.layout, last.n,
                                          last.now)
        IN  IF m = {} THEN last.out.kind = "nil"
            ELSE /\ last.out.kind = "actions"
                 /\ Len(last.out.actions) = Cardinality(m)
                 /\ {last.out.actions[j].remove.index :
                        j \in 1..Len(last.out.actions)} = m
                 /\ \A j \in 1..Len(last.out.actions) :
                       last.out.actions[j].remove.alias = last.alias

\* C7 witness: a call that returned two or more actions.
C7_Witness ==
    /\ last.op = "RemoveOlderThan"
    /\ last.out.kind = "actions"
    /\ Len(last.out.actions) >= 2

\* The write of the last Flush failed: a record could not be serialized, the
\* connection failed, or the service answered with a status of 300 or more.
FlushWriteFailed ==
    \/ \E j \in 1..Len(last.before) : ~last.before[j].marshals
    \/ /\ Len(last.calls) >= 1
       /\ \/ last.calls[1].net = "down"
          \/ last.calls[1].net = "ok" /\ last.calls[1].status >= 300

\* C1: a Flush whose write fails (transport error, status of 300 or more, or
\* a record that cannot be serialized) returns the error and leaves the
\* pending records exactly as they were, same records in the same order, so
\* that the next Flush sends the same stream; a Flush makes at most one write
\* call and does not retry.
C1_FailedFlushKeepsBatch ==
    last.op = "Flush" =>
        /\ Len(last.calls) <= 1
        /\ \A j \in 1..Len(last.calls) :
              /\ last.calls[j].method = "POST"
              /\ last.calls[j].path = PathBulk
        /\ FlushWriteFailed => last.err # NoError
        /\ last.err # NoError =>
              /\ batch.Docs = last.before
              /\ Len(last.calls) = 1 =>
                    /\ Encode(batch).ok
                    /\ Encode(batch).body = last.calls[1].body

\* C1 witness: a Flush of two records answered with status 300 has returned
\* an error after one call, and both records are still pending.
C1_Witness ==
    /\ last.op = "Flush"
    /\ Len(last.before) = 2
    /\ last.before[1] # last.before[2]
    /\ Len(last.calls) = 1
    /\ last.calls[1].status = 300
    /\ last.err # NoError
    /\ batch.Docs = last.before

\* C2: with auto-flush disabled, Size is the number of Add calls since the
\* last Flush that succeeded (or since the batch was made), and an Add
\* appends its record, makes no network call and returns no error.
C2_SizeCountsAdds ==
    batch.Threshold = 0 =>
        /\ Size(batch) = adds
        /\ last.op = "Add" =>
              /\ batch.Docs = Append(last.before, last.doc)
              /\ last.calls = <<>>
              /\ last.err = NoError

\* C2 witness: with auto-flush disabled, a third Add in a row has brought the
\* size to three.
C2_Witness ==
    /\ batch.Threshold = 0
    /\ last.op = "Add"
    /\ adds = 3
    /\ Size(batch) = 3

\* C3: a Flush that succeeds leaves the batch empty and, on a non-empty
\* batch, has made exactly one bulk call (POST /_bulk) carrying the encoding
\* of the records that were pending; a Flush of an empty batch succeeds with
\* no call and leaves the batch empty, however often it is repeated.
C3_FlushDrainsOnce ==
    last.op = "Flush" =>
        /\ last.err = NoError =>
              /\ Size(batch) = 0
              /\ Len(last.calls) = IF Len(last.before) = 0 THEN 0 ELSE 1
              /\ \A j \in 1..Len(last.calls) :
                    /\ last.calls[j].method = "POST"
                    /\ last.calls[j].path = PathBulk
                    /\ last.calls[j].body =
                          Stream(EncodeDocs(batch.Index, batch.Type,
                                            last.before))
                    /\ last.calls[j].net = "ok"
                    /\ last.calls[j].status < 300
        /\ Len(last.before) = 0 =>
              /\ last.err = NoError
              /\ last.calls = <<>>
              /\ Size(batch) = 0

\* C3 witness: a Flush of two records has succeeded with one call and the
\* batch is empty.
C3_Witness ==
    /\ last.op = "Flush"
    /\ Len(last.before) = 2
    /\ last.err = NoError
    /\ Len(last.calls) = 1
    /\ Size(batch) = 0

\* The indexes of the last call's service that the call's arguments select.
OldOnes == DOMAIN MatchingOlderThan(Listed(last.before), last.layout,
                                    last.n, last.now)

\* The call at position j of the last operation was answered below 300.
Answered(j) == last.calls[j].net = "ok" /\ last.calls[j].status < 300

\* The fetch of the last retirement call succeeded.
Fetched ==
    /\ Len(last.calls) >= 1
    /\ Answered(1)
    /\ last.calls[1].reply = "listing"

\* C8: RemoveOldAliases first issues GET /_aliases; when the fetch fails it
\* returns the error and issues no POST; when no index is old enough it
\* returns no error and issues no POST; otherwise it issues exactly one
\* POST /_aliases, after the GET, whose body removes the alias from each old
\* index, and returns what that call returns.
C8_AliasRetirementCalls ==
    last.op = "RemoveOldAliases" =>
        /\ Len(last.calls) <= 2
        /\ \A j \in 1..Len(last.calls) :
              IF j = 1
              THEN last.calls[j].method = "GET"
                      /\ last.calls[j].path = PathAliases
              ELSE last.calls[j].method = "POST"
                      /\ last.calls[j].path = PathAliases
        /\ ~Fetched => Len(last.calls) <= 1 /\ last.err # NoError
        /\ (Fetched /\ OldOnes = {}) =>
              Len(last.calls) = 1 /\ last.err = NoError
        /\ (Fetched /\ OldOnes # {}) =>
              /\ Len(last.calls) = 2
              /\ last.calls[2].body.kind = "actions"
              /\ Len(last.calls[2].body.actions) = Cardinality(OldOnes)
              /\ {last.calls[2].body.actions[j].remove :
                    j \in 1..Len(last.calls[2].body.actions)}
                    = {[index |-> k, alias |-> last.alias] : k \in OldOnes}
              /\ last.err = NoError <=> Answered(2)
              /\ last.calls[2].net = "down" => last.err.kind = "transport"
              /\ (last.calls[2].net = "ok" /\ last.calls[2].status >= 300) =>
                    last.err = StatusError(last.calls[2].status,
                                           [kind |-> last.calls[2].reply])

\* C8 witness: a call that fetched the listing, found two or more old
\* indexes and posted their removal, which succeeded.
C8_Witness ==
    /\ last.op = "RemoveOldAliases"
    /\ Len(last.calls) = 2
    /\ Cardinality(OldOnes) >= 2
    /\ last.err = NoError

\* The DELETE calls of the last operation.
Deletes == {j \in 1..Len(last.calls) : last.calls[j].method = "DELETE"}

\* C9: RemoveOldIndexes issues at most one DELETE, whose path is the
\* comma-joined list of exactly the indexes MatchingOlderThan selects; it
\* issues none when the fetch fails, the listing is empty or no index is old
\* enough; after a success the service holds exactly the indexes that were
\* not old (series 01-20..01-23, n=2, 2016-01-23 00:01: 01-22 and 01-23
\* remain); an index whose name does not parse under the layout is never
\* deleted.
C9_IndexRetirementCalls ==
    last.op = "RemoveOldIndexes" =>
        /\ Cardinality(Deletes) <= 1
        /\ Len(last.calls) <= 2
        /\ \A j \in Deletes :
              /\ j = 2
              /\ Fetched
              /\ Head(last.calls[j].path) = "/"
              /\ Split(Tail(last.calls[j].path)) = OldOnes
              /\ Len(last.calls[j].path) =
                    Len(Join(CHOOSE o \in IterOrders(OldOnes) : TRUE)) + 1
        /\ (~Fetched \/ DOMAIN last.before = {} \/ OldOnes = {}) =>
              Deletes = {}
        /\ ~Fetched => last.err # NoError
        /\ (Fetched /\ OldOnes # {}) => Cardinality(Deletes) = 1
        /\ (Fetched /\ last.err = NoError) =>
              server = [k \in DOMAIN last.before \ OldOnes |-> last.before[k]]
        /\ \A k \in DOMAIN last.before :
              ~Parse(last.layout, k).ok => k \in DOMAIN server
        /\ (Fetched /\ last.err = NoError /\ last.layout = LayoutSeries
              /\ last.n = 2 /\ last.now = Date(2016, 1, 23, 0, 1, 0)
              /\ SeriesNames \subseteq DOMAIN last.before) =>
              DOMAIN server \cap SeriesNames
                 = {Daily(Series, 16, 1, 22), Daily(Series, 16, 1, 23)}

\* C9 witness: the test's call, n=2 at 2016-01-23 00:01 on the four series
\* indexes, has deleted two in one DELETE and left .kibana-4 in place.
C9_Witness ==
    /\ last.op = "RemoveOldIndexes"
    /\ last.layout = LayoutSeries
    /\ last.n = 2
    /\ SeriesNames \subseteq DOMAIN last.before
    /\ Kibana \in DOMAIN server
    /\ last.err = NoError
    /\ Cardinality(Deletes) = 1
    /\ DOMAIN last.before \ DOMAIN server
          = {Daily(Series, 16, 1, 20), Daily(Series, 16, 1, 21)}

\* The operations that are one call of Request.
SingleOps == {"Request", "Bulk", "DeleteAll", "RefreshAll", "Aliases"}

\* C10 as stated: every Request makes exactly one HTTP call, returns an
\* error carrying the status and the body when the status is 300 or more,
\* returns no error when it is below 300, and decodes the body exactly when
\* the status is below 300 and v is not nil.
C10_ExactlyOneCall ==
    last.op \in SingleOps =>
        /\ Len(last.calls) = 1
        /\ last.calls[1].net # "down" =>
              /\ last.calls[1].status >= 300 =>
                    last.err = StatusError(last.calls[1].status,
                                           [kind |-> last.calls[1].reply])
              /\ last.calls[1].status < 300 => last.err = NoError
              /\ last.unmarshal
                    <=> (last.calls[1].status < 300 /\ last.v # "nil")

\* C10, amended: a Request makes at most one HTTP call, and exactly one
\* unless the request cannot be built or signed; when the response is read,
\* a status of 300 or more gives an error carrying the status and the body
\* (an empty bulk body is answered 400), and a status below 300 gives no
\* error when v is nil and otherwise the result of decoding the body into
\* v, which is an error when the body is not JSON for v; the body is decoded
\* exactly when the response is read, its status is below 300 and v is not
\* nil; when the connection fails or the body cannot be read, the error of
\* that failure is returned and nothing is decoded.
C10_AtMostOneCall ==
    last.op \in SingleOps =>
        /\ Len(last.calls) <= 1
        /\ Len(last.calls) = 0 <=> last.err.kind \in {"newrequest", "signing"}
        /\ Len(last.calls) = 0 <=>
              \/ client.URL = "bad"
              \/ ~ValidMethod(last.method)
              \/ client.awsCredentials = "unsignable"
        /\ Len(last.calls) = 0 => ~last.unmarshal /\ server = last.before
        /\ Len(last.calls) = 1 =>
              /\ last.calls[1].method = last.method
              /\ last.calls[1].path = last.path
              /\ last.calls[1].net = "down" =>
                    last.err.kind = "transport" /\ ~last.unmarshal
              /\ last.calls[1].net = "cut" =>
                    last.err.kind = "read" /\ ~last.unmarshal
              /\ (last.calls[1].net = "ok" /\ last.calls[1].status >= 300) =>
                    /\ last.err = StatusError(last.calls[1].status,
                                              [kind |-> last.calls[1].reply])
                    /\ ~last.unmarshal
              /\ (last.calls[1].net = "ok" /\ last.calls[1].status < 300) =>
                    /\ last.unmarshal <=> last.v # "nil"
                    /\ last.v = "nil" => last.err = NoError
                    /\ last.v # "nil" => last.err.kind \in {"nil", "decode"}
                    /\ (last.v # "nil" /\ last.calls[1].reply = "garbage") =>
                          last.err.kind = "decode"
                    /\ (last.v # "nil" /\ last.calls[1].reply = "listing") =>
                          last.err = NoError
              /\ (last.op = "Bulk" /\ last.body = EmptyStream
                    /\ last.calls[1].net = "ok") =>
                    /\ last.err.kind = "status"
                    /\ last.err.status = last.calls[1].status
                    /\ last.calls[1].status >= 300

\* C10 witness: a Request with a non-nil v answered 299 has made one call,
\* decoded the body and returned no error.
C10_Witness ==
    /\ last.op = "Request"
    /\ last.v # "nil"
    /\ Len(last.calls) = 1
    /\ last.calls[1].status = 299
    /\ last.unmarshal
    /\ last.err = NoError

\* The lines of a stream, as the service splits it at the line terminators;
\* what follows the last terminator is a line of its own.
RECURSIVE LinesOf(_)
LinesOf(tokens) ==
    IF Len(tokens) = 0 THEN <<>>
    ELSE LET ends == {j \in 1..Len(tokens) : tokens[j] = Newline}
         IN  IF ends = {} THEN <<tokens>>
             ELSE LET e == CHOOSE j \in ends : \A k \in ends : j <= k
                  IN  <<Take(tokens, e - 1)>> \o LinesOf(Drop(tokens, e))

\* The records the last Add or Flush had to write.
Written == IF last.op = "Add" THEN Append(last.before, last.doc) ELSE last.before

\* C11: the bulk stream a Flush sends for n pending records is 2n lines, each
\* ended by a line terminator, the last included: for the i-th record added,
\* line 2i-1 is the action line naming the batch's Index and Type and line 2i
\* is the record's serialized body, in the order of the Adds (5 records give
\* 10 lines).
C11_TwoLinesPerRecord ==
    (last.op \in {"Add", "Flush"} /\ Len(last.calls) >= 1) =>
        LET tokens == last.calls[1].body.tokens
            lines == LinesOf(tokens)
            n == Len(Written)
        IN  /\ n >= 1
            /\ Len(lines) = 2 * n
            /\ Len(tokens) = 4 * n
            /\ tokens[Len(tokens)] = Newline
            /\ \A i \in 1..n :
                  /\ lines[2 * i - 1] = <<MetaLine(batch.Index, batch.Type)>>
                  /\ lines[2 * i] = <<DocLine(Serialize(Written[i]).json)>>
            /\ n = 5 => Len(lines) = 10

\* C11 witness: a Flush of five records, not all the same, has sent a stream
\* of ten lines.
C11_Witness ==
    /\ last.op = "Flush"
    /\ Len(last.before) = 5
    /\ last.before[1] # last.before[2]
    /\ Len(last.calls) = 1
    /\ Len(LinesOf(last.calls[1].body.tokens)) = 10

\* The last Add brought the batch to its threshold.
Reached == batch.Threshold > 0 /\ Len(last.before) + 1 >= batch.Threshold

\* C12: with a threshold T > 0, an Add that brings the pending count to T or
\* more flushes: when it returns no error the batch is empty, so the size is
\* below T, and one bulk call was made; when the flush fails the error is
\* returned by Add and the pending records, the new one included, are kept.
\* An Add below the threshold, and every Add with threshold 0, appends its
\* record, makes no call and returns no error.
C12_AutoFlushAtThreshold ==
    last.op = "Add" =>
        /\ ~Reached =>
              /\ last.calls = <<>>
              /\ last.err = NoError
              /\ batch.Docs = Written
        /\ Reached =>
              /\ Len(last.calls) <= 1
              /\ Len(last.calls) = 0 =>
                    last.err.kind \in {"encoding", "newrequest", "signing"}
              /\ FlushWriteFailed => last.err # NoError
              /\ (Len(last.calls) = 1 /\ last.calls[1].net = "ok"
                    /\ last.calls[1].status < 300
                    /\ last.calls[1].reply = "object") => last.err = NoError
              /\ last.err = NoError =>
                    Size(batch) = 0 /\ Len(last.calls) = 1
              /\ last.err # NoError => batch.Docs = Written
        /\ (batch.Threshold > 0 /\ last.err = NoError) =>
              Size(batch) < batch.Threshold
        /\ batch.Threshold = 0 => last.calls = <<>> /\ last.err = NoError

\* C12 witness: with a threshold, the Add that brought the count to the
\* threshold has flushed in one call and left the batch empty.
C12_Witness ==
    /\ last.op = "Add"
    /\ batch.Threshold > 0
    /\ Len(last.before) + 1 = batch.Threshold
    /\ last.err = NoError
    /\ Len(last.calls) = 1
    /\ Size(batch) = 0

\* The characters of the index names, in the order of their codes.
NameChars ==
    <<"-", ".", "0", "1", "2", "3", "4", "5", "6", "7", "8", "9",
      "a", "b", "c", "d", "e", "f", "g", "h", "i", "j", "k", "l", "m",
      "n", "o", "p", "q", "r", "s", "t", "u", "v", "w", "x", "y", "z">>

CharRank(c) == CHOOSE r \in 1..Len(NameChars) : NameChars[r] = c

\* The string a sorts before the string b.
NameLess(a, b) ==
    \E i \in 1..(Len(a) + 1) :
        /\ i <= Len(b)
        /\ \A j \in 1..(i - 1) : a[j] = b[j]
        /\ i <= Len(a) => CharRank(a[i]) < CharRank(b[i])

\* C13 as stated: the actions RemoveOlderThan returns are in ascending order
\* of index name, whatever order the map is ranged over (for the test
\* catalog with n=7: checks-16-04-01, then checks-16-04-02).
C13_AscendingOrder ==
    (last.op = "RemoveOlderThan" /\ last.out.kind = "actions") =>
        /\ \A j, k \in 1..Len(last.out.actions) :
              j < k => NameLess(last.out.actions[j].remove.index,
                                last.out.actions[k].remove.index)
        /\ (catalog = Fixture /\ last.layout = LayoutChecks /\ last.n = 7
              /\ last.now = Date(2016, 4, 9, 0, 1, 0)) =>
              last.out.actions =
                 <<[remove |-> [index |-> Daily(Checks, 16, 4, 1),
                                alias |-> last.alias]],
                   [remove |-> [index |-> Daily(Checks, 16, 4, 2),
                                alias |-> last.alias]]>>

\* C14: Names, Matching, MatchingOlderThan and RemoveOlderThan leave the
\* catalog they are called on as it was decoded from the listing, the same
\* names with the same aliases, after any sequence of calls; Matching and
\* MatchingOlderThan return a map of their own whose keys are among the
\* receiver's, each kept entry with the receiver's aliases.
C14_ReceiverUnchanged ==
    /\ catalog = Listed(server)
    /\ last.op \in {"Matching", "MatchingOlderThan"} =>
          /\ last.fresh
          /\ DOMAIN last.out \subseteq DOMAIN catalog
          /\ \A k \in DOMAIN last.out :
                last.out[k].Aliases = catalog[k].Aliases

\* C14 witness: a MatchingOlderThan that kept some entries of the receiver
\* and dropped others, .kibana-4 among them, has returned, and the receiver
\* still holds them all.
C14_Witness ==
    /\ last.op = "MatchingOlderThan"
    /\ DOMAIN last.out # {}
    /\ Kibana \in DOMAIN catalog \ DOMAIN last.out
    /\ Cardinality(DOMAIN catalog) >= Cardinality(DOMAIN last.out) + 2
    /\ catalog = Listed(server)

====
